---- MODULE Spec2Model ----
(***************************************************************************)
(* heck: the word splitter `transform` (src/src/lib.rs) and the two case   *)
(* renderers built on it, CamelCase (src/src/camel.rs) and mixedCase       *)
(* (src/src/mixed.rs).                                                     *)
(*                                                                         *)
(* A string is a sequence of characters.  Characters are drawn from a      *)
(* small alphabet with one representative per class the code tells apart:  *)
(*   "a"  a lowercase letter          "A"  an uppercase letter             *)
(*   "1"  an uncased word character   "_"  the underscore                  *)
(*   " "  a character outside words                                        *)
(*   "GS" Greek capital sigma, "gs" small sigma, "gf" final small sigma    *)
(* Offsets (i, next_i, init) are byte offsets into the UTF-8 text of a     *)
(* Unicode word, as char_indices() yields them; the Greek letters are two  *)
(* bytes long, all others one.                                             *)
(***************************************************************************)
EXTENDS Naturals, Sequences, FiniteSets

\* Longest input string explored.
MaxLen == 4

\* Largest number of Greek letters in an input string.
MaxGreek == 1

Latin == {"a", "A", "1", "_", " "}

Greek == {"GS", "gs", "gf"}

Alphabet == Latin \cup Greek

\* ---------------------------------------------------------------- characters

IsLowercase(c) == c \in {"a", "gs", "gf"}

IsUppercase(c) == c \in {"A", "GS"}

ToUppercase(c) ==
  CASE c = "a" -> "A"
    [] c = "gs" -> "GS"
    [] c = "gf" -> "GS"
    [] OTHER -> c

ToLowercase(c) ==
  CASE c = "A" -> "a"
    [] c = "GS" -> "gs"
    [] OTHER -> c

IsAlphanumeric(c) == c \notin {"_", " "}

Utf8Len(c) == IF c \in Greek THEN 2 ELSE 1

\* ------------------------------------------------------------------- strings

RECURSIVE ByteLen(_)
ByteLen(w) == IF w = << >> THEN 0 ELSE Utf8Len(Head(w)) + ByteLen(Tail(w))

\* Byte offset of the k-th character (1-based) of w.
ByteOff(w, k) == ByteLen(SubSeq(w, 1, k - 1))

IsCharBoundary(w, b) == \E k \in 1..(Len(w) + 1) : ByteOff(w, k) = b

\* What &w[lo..hi] evaluates to when the range is valid.
Slice(w, lo, hi) ==
  LET ks == {k \in 1..Len(w) : lo <= ByteOff(w, k) /\ ByteOff(w, k) < hi}
  IN  IF ks = {} THEN << >>
      ELSE SubSeq(w, CHOOSE k \in ks : \A j \in ks : k <= j,
                     CHOOSE k \in ks : \A j \in ks : j <= k)

\* &w[lo..hi] panics unless the range is ordered, in range and on char boundaries.
SliceOk(w, lo, hi) ==
  /\ lo <= hi
  /\ hi <= ByteLen(w)
  /\ IsCharBoundary(w, lo)
  /\ IsCharBoundary(w, hi)

\* s.unicode_words(): the maximal runs of word characters that hold at least
\* one alphanumeric character, in order.
RECURSIVE SplitWords(_, _)
SplitWords(str, cur) ==
  LET keep == IF \E k \in 1..Len(cur) : IsAlphanumeric(cur[k]) THEN <<cur>> ELSE << >>
  IN  IF str = << >> THEN keep
      ELSE IF Head(str) = " " THEN keep \o SplitWords(Tail(str), << >>)
      ELSE SplitWords(Tail(str), Append(cur, Head(str)))

UnicodeWords(str) == SplitWords(str, << >>)

\* ---------------------------------------------------------------- renderers

RECURSIVE lowercase(_)
lowercase(w) ==
  IF w = << >> THEN << >>
  ELSE IF Head(w) = "GS" /\ Tail(w) = << >> THEN <<"gf">>
  ELSE <<ToLowercase(Head(w))>> \o lowercase(Tail(w))

capitalize(w) ==
  IF w = << >> THEN << >>
  ELSE <<ToUppercase(Head(w))>> \o lowercase(Tail(w))

\* --------------------------------------------------------------- the scanner

\* next_mode: the mode including the current character.
NextMode(c, mode) ==
  IF IsLowercase(c) THEN "Lowercase"
  ELSE IF IsUppercase(c) THEN "Uppercase"
  ELSE mode

\* Mutant: only an uppercase character after a lowercase one makes a boundary.
BoundaryAfterCondCaseOnly(c, next, mode) ==
  NextMode(c, mode) = "Lowercase" /\ IsUppercase(next)

\* Mutant: only an underscore makes a boundary after the current character.
BoundaryAfterCondUnderscoreOnly(c, next, mode) == next = "_"

\* Word boundary after the current character.
BoundaryAfterCond(c, next, mode) ==
  next = "_" \/ (NextMode(c, mode) = "Lowercase" /\ IsUppercase(next))

\* Mutant: the boundary-before rule never applies.
BoundaryBeforeCondNever(c, next, mode) == FALSE

\* Mutant: the boundary-before rule does not look at the mode.
BoundaryBeforeCondAnyMode(c, next, mode) == IsUppercase(c) /\ IsLowercase(next)

\* Word boundary before the current character.
BoundaryBeforeCond(c, next, mode) ==
  mode = "Uppercase" /\ IsUppercase(c) /\ IsLowercase(next)

\* Mutant: init stays on the underscore.
SkipInitNever(init, i) == init

\* The underscore branch: init moves past an underscore it stands on.
SkipInit(init, i) == IF init = i THEN init + 1 ELSE init

\* Mutant: boundary is invoked before the first word too.
CallsBoundaryAlways(first_word) == TRUE

\* `if !first_word { boundary(f)?; }`
CallsBoundary(first_word) == ~first_word

\* The slices one Unicode word w is cut into, scanning from character p on.
RECURSIVE ScanWord(_, _, _, _)
ScanWord(w, p, ini, md) ==
  IF p > Len(w) THEN << >>
  ELSE IF w[p] = "_" THEN ScanWord(w, p + 1, SkipInit(ini, ByteOff(w, p)), md)
  ELSE IF p = Len(w) THEN <<Slice(w, ini, ByteLen(w))>>
  ELSE IF BoundaryAfterCond(w[p], w[p + 1], md)
    THEN <<Slice(w, ini, ByteOff(w, p + 1))>>
         \o ScanWord(w, p + 1, ByteOff(w, p + 1), "Boundary")
  ELSE IF BoundaryBeforeCond(w[p], w[p + 1], md)
    THEN <<Slice(w, ini, ByteOff(w, p))>>
         \o ScanWord(w, p + 1, ByteOff(w, p), "Boundary")
  ELSE ScanWord(w, p + 1, ini, NextMode(w[p], md))

RECURSIVE ScanWords(_)
ScanWords(ws) ==
  IF ws = << >> THEN << >>
  ELSE ScanWord(Head(ws), 1, 0, "Boundary") \o ScanWords(Tail(ws))

\* The sub-words transform passes to with_word for the input str, in order.
SubWords(str) == ScanWords(UnicodeWords(str))

RECURSIVE CapitalizeAll(_)
CapitalizeAll(ws) ==
  IF ws = << >> THEN << >> ELSE capitalize(Head(ws)) \o CapitalizeAll(Tail(ws))

\* str.to_camel_case()
to_camel_case(str) == CapitalizeAll(SubWords(str))

\* str.to_mixed_case()
to_mixed_case(str) ==
  LET sw == SubWords(str)
  IN  IF sw = << >> THEN << >>
      ELSE lowercase(Head(sw)) \o CapitalizeAll(Tail(sw))

VARIABLES
  s,           \* the input string
  words,       \* s.unicode_words(): the Unicode words of s, in order
  style,       \* the callbacks: "camel", "mixed", or "any" (arbitrary F and G)
  wi,          \* index of the Unicode word being scanned (0 before the first)
  pos,         \* index of the character char_indices.next() yields next
  init,        \* byte offset where the sub-word being accumulated starts
  mode,        \* WordMode
  first_word,  \* transform's first_word flag
  first,       \* the `first` flag captured by the mixed-case closure
  out,         \* what has been written to the formatter
  calls,       \* the callback invocations made so far, in order
  result       \* "running", "ok" (Ok(())), "err" (Err returned), "panic"

vars == <<s, words, style, wi, pos, init, mode, first_word, first, out, calls, result>>

Inputs ==
  {x \in UNION {[1..n -> Alphabet] : n \in 0..MaxLen} :
     Cardinality({k \in DOMAIN x : x[k] \in Greek}) <= MaxGreek}

word == words[wi]

Init ==
  /\ s \in Inputs
  /\ words = UnicodeWords(s)
  /\ style \in {"camel", "mixed", "any"}
  /\ wi = 0
  /\ pos = 1
  /\ init = 0
  /\ mode = "Boundary"
  /\ first_word = TRUE
  /\ first = TRUE
  /\ out = << >>
  /\ calls = << >>
  /\ result = "running"

\* The outcomes a callback invocation can have: to_camel_case and to_mixed_case
\* write to a String, which never fails; arbitrary callbacks may fail.
Outcomes == IF style = "any" THEN BOOLEAN ELSE {TRUE}

BoundaryCall(ok) ==
  [kind |-> "boundary", w |-> 0, lo |-> 0, hi |-> 0, rule |-> "none", ok |-> ok]

WordCall(lo, hi, rule, ok) ==
  [kind |-> "word", w |-> wi, lo |-> lo, hi |-> hi, rule |-> rule, ok |-> ok]

\* Mutant: the result of boundary is dropped.
BoundaryFailedNever(bOk) == FALSE

\* `boundary(f)?` is reached and returns Err.
BoundaryFailed(bOk) == CallsBoundary(first_word) /\ ~bOk

\* How one emission ends: the boundary callback fails, the slice panics, the
\* word callback fails, or all is well.
EmitStatus(lo, hi, bOk, wOk) ==
  IF BoundaryFailed(bOk) THEN "err"
  ELSE IF ~SliceOk(word, lo, hi) THEN "panic"
  ELSE IF ~wOk THEN "err"
  ELSE "ok"

\* with_word is invoked unless boundary failed or the slice panicked.
WordCalled(lo, hi, bOk) == ~BoundaryFailed(bOk) /\ SliceOk(word, lo, hi)

\* The callback invocations one emission makes.
EmitCalls(lo, hi, rule, bOk, wOk) ==
  (IF CallsBoundary(first_word) THEN <<BoundaryCall(bOk)>> ELSE << >>)
  \o (IF WordCalled(lo, hi, bOk) THEN <<WordCall(lo, hi, rule, wOk)>> ELSE << >>)

\* What with_word writes for the slice w.
Render(w) ==
  CASE style = "camel" -> capitalize(w)
    [] style = "mixed" -> IF first THEN lowercase(w) ELSE capitalize(w)
    [] OTHER -> << >>

\* Mutant: the closure never clears `first`.
FirstAfterWordKept == first

\* The mixed-case closure clears `first` on its first invocation.
FirstAfterWord == IF style = "mixed" THEN FALSE ELSE first

\* The effect of one emission on the callbacks' side: calls, out, first.
Emit(lo, hi, rule, bOk, wOk) ==
  LET st == EmitStatus(lo, hi, bOk, wOk)
  IN  /\ calls' = calls \o EmitCalls(lo, hi, rule, bOk, wOk)
      /\ out' = IF st = "ok" THEN out \o Render(Slice(word, lo, hi)) ELSE out
      /\ first' = IF WordCalled(lo, hi, bOk) THEN FirstAfterWord ELSE first
      /\ result' = IF st = "ok" THEN "running" ELSE st

\* char_indices still has a character to yield.
Scanning == result = "running" /\ wi >= 1 /\ pos <= Len(word)

\* The scan of the current word is over (or no word has been taken yet).
WordDone == IF wi = 0 THEN TRUE ELSE pos > Len(word)

\* for word in s.unicode_words(): the next word, with fresh init and mode.
NextWord ==
  /\ result = "running"
  /\ WordDone
  /\ wi < Len(words)
  /\ wi' = wi + 1
  /\ pos' = 1
  /\ init' = 0
  /\ mode' = "Boundary"
  /\ UNCHANGED <<s, words, style, first_word, first, out, calls, result>>

\* Skip underscore characters.
SkipUnderscore ==
  /\ Scanning
  /\ word[pos] = "_"
  /\ init' = SkipInit(init, ByteOff(word, pos))
  /\ pos' = pos + 1
  /\ UNCHANGED <<s, words, style, wi, mode, first_word, first, out, calls, result>>

\* Word boundary after the current character.
BoundaryAfter ==
  /\ Scanning
  /\ word[pos] # "_"
  /\ pos < Len(word)
  /\ BoundaryAfterCond(word[pos], word[pos + 1], mode)
  /\ \E bOk \in Outcomes, wOk \in Outcomes :
       LET next_i == ByteOff(word, pos + 1)
           st == EmitStatus(init, next_i, bOk, wOk)
       IN  /\ Emit(init, next_i, "after", bOk, wOk)
           /\ first_word' = IF st = "ok" THEN FALSE ELSE first_word
           /\ init' = IF st = "ok" THEN next_i ELSE init
           /\ mode' = IF st = "ok" THEN "Boundary" ELSE mode
  /\ pos' = pos + 1
  /\ UNCHANGED <<s, words, style, wi>>

\* Word boundary before the current character.
BoundaryBefore ==
  /\ Scanning
  /\ word[pos] # "_"
  /\ pos < Len(word)
  /\ ~BoundaryAfterCond(word[pos], word[pos + 1], mode)
  /\ BoundaryBeforeCond(word[pos], word[pos + 1], mode)
  /\ \E bOk \in Outcomes, wOk \in Outcomes :
       LET i == ByteOff(word, pos)
           st == EmitStatus(init, i, bOk, wOk)
       IN  /\ Emit(init, i, "before", bOk, wOk)
           /\ init' = IF st = "ok" THEN i ELSE init
           /\ mode' = IF st = "ok" THEN "Boundary" ELSE mode
  /\ first_word' = FALSE
  /\ pos' = pos + 1
  /\ UNCHANGED <<s, words, style, wi>>

\* No word boundary, just update the mode.
NoBoundary ==
  /\ Scanning
  /\ word[pos] # "_"
  /\ pos < Len(word)
  /\ ~BoundaryAfterCond(word[pos], word[pos + 1], mode)
  /\ ~BoundaryBeforeCond(word[pos], word[pos + 1], mode)
  /\ mode' = NextMode(word[pos], mode)
  /\ pos' = pos + 1
  /\ UNCHANGED <<s, words, style, wi, init, first_word, first, out, calls, result>>

\* Collect trailing characters as a word.
Trailing ==
  /\ Scanning
  /\ word[pos] # "_"
  /\ pos = Len(word)
  /\ \E bOk \in Outcomes, wOk \in Outcomes :
       Emit(init, ByteLen(word), "trailing", bOk, wOk)
  /\ first_word' = FALSE
  /\ pos' = pos + 1
  /\ UNCHANGED <<s, words, style, wi, init, mode>>

\* The words are exhausted: Ok(()).
Return ==
  /\ result = "running"
  /\ WordDone
  /\ wi = Len(words)
  /\ result' = "ok"
  /\ UNCHANGED <<s, words, style, wi, pos, init, mode, first_word, first, out, calls>>

Next ==
  \/ NextWord
  \/ SkipUnderscore
  \/ BoundaryAfter
  \/ BoundaryBefore
  \/ NoBoundary
  \/ Trailing
  \/ Return

Spec == Init /\ [][Next]_vars

\* ------------------------------------------------------------- vocabulary

Done == result = "ok"

\* The indices of the with_word invocations in calls.
WordIdx == {k \in 1..Len(calls) : calls[k].kind = "word"}

\* The slice the k-th invocation passed to with_word.
SliceOf(k) == Slice(words[calls[k].w], calls[k].lo, calls[k].hi)

RECURSIVE SlicesFrom(_)
SlicesFrom(k) ==
  IF k > Len(calls) THEN << >>
  ELSE IF calls[k].kind = "word" THEN <<SliceOf(k)>> \o SlicesFrom(k + 1)
  ELSE SlicesFrom(k + 1)

\* The slices passed to with_word so far, in order.
Emitted == SlicesFrom(1)

\* The run of the scanner and the function SubWords agree.
RunIsSubWords ==
  Done => /\ Emitted = SubWords(s)
          /\ style = "camel" => out = to_camel_case(s)
          /\ style = "mixed" => out = to_mixed_case(s)

BoundaryIdx == {k \in 1..Len(calls) : calls[k].kind = "boundary"}

NoFailure == \A k \in 1..Len(calls) : calls[k].ok

\* Some sub-word passed to with_word starts at character p of Unicode word wn.
StartsAt(wn, p) ==
  \E k \in WordIdx : calls[k].w = wn /\ calls[k].lo = ByteOff(words[wn], p)

\* Some sub-word passed to with_word ends just before character p of word wn.
EndsAt(wn, p) ==
  \E k \in WordIdx : calls[k].w = wn /\ calls[k].hi = ByteOff(words[wn], p)

\* Characters p..q of w are a maximal run of two or more uppercase characters.
UpperRun(w, p, q) ==
  /\ p < q
  /\ \A m \in p..q : IsUppercase(w[m])
  /\ p = 1 \/ ~IsUppercase(w[p - 1])
  /\ q = Len(w) \/ ~IsUppercase(w[q + 1])

IsCased(c) == IsLowercase(c) \/ IsUppercase(c)

\* The last cased character of x, or "none".
RECURSIVE LastCased(_)
LastCased(x) ==
  IF x = << >> THEN "none"
  ELSE IF IsCased(x[Len(x)]) THEN x[Len(x)]
  ELSE LastCased(SubSeq(x, 1, Len(x) - 1))

RECURSIVE Concat(_)
Concat(ws) == IF ws = << >> THEN << >> ELSE Head(ws) \o Concat(Tail(ws))

IsDelimiter(c) == c \in {"_", " "}

NotDelimiter(c) == ~IsDelimiter(c)

\* ------------------------------------------------------------------ claims

\* C1: as long as no callback has failed, the callback invocations made so far
\* read word (boundary word)*: they alternate, starting and ending with a word,
\* so there is one boundary fewer than words (none when there is no word); and
\* on return there is one with_word invocation per sub-word of the input.
C1_CallShape ==
  NoFailure =>
    /\ \A k \in 1..Len(calls) :
         calls[k].kind = (IF k % 2 = 1 THEN "word" ELSE "boundary")
    /\ Len(calls) = 0 \/ calls[Len(calls)].kind = "word"
    /\ Cardinality(BoundaryIdx)
         = (IF WordIdx = {} THEN 0 ELSE Cardinality(WordIdx) - 1)
    /\ Done => Len(Emitted) = Len(SubWords(s))

\* C1 witness: a finished run with a boundary between two sub-words that come
\* from different Unicode words.
C1_Witness ==
  /\ Done
  /\ \E k \in 1..Len(calls) :
       /\ k + 2 <= Len(calls)
       /\ calls[k].kind = "word"
       /\ calls[k + 1].kind = "boundary"
       /\ calls[k + 2].kind = "word"
       /\ calls[k].w # calls[k + 2].w

\* C2: every slice passed to with_word is a valid, non-empty slice of its
\* Unicode word without an underscore; the slices come in increasing,
\* non-overlapping order; and on return every non-underscore character of
\* every Unicode word lies in exactly one slice, so the slices concatenated
\* are the input without its underscores and non-word characters.
C2_Partition ==
  /\ \A k \in WordIdx :
       /\ SliceOk(words[calls[k].w], calls[k].lo, calls[k].hi)
       /\ calls[k].lo < calls[k].hi
       /\ SliceOf(k) # << >>
       /\ \A j \in 1..Len(SliceOf(k)) : SliceOf(k)[j] # "_"
  /\ \A k \in WordIdx : \A j \in WordIdx :
       k < j => \/ calls[k].w < calls[j].w
                \/ calls[k].w = calls[j].w /\ calls[k].hi <= calls[j].lo
  /\ Done =>
       /\ \A wn \in 1..Len(words) : \A p \in 1..Len(words[wn]) :
            words[wn][p] # "_" =>
              Cardinality({k \in WordIdx :
                             /\ calls[k].w = wn
                             /\ calls[k].lo <= ByteOff(words[wn], p)
                             /\ ByteOff(words[wn], p) < calls[k].hi}) = 1
       /\ Concat(Emitted) = SelectSeq(s, NotDelimiter)

\* C2 witness: a finished run over a word with a leading and an inner
\* underscore, cut into two slices.
C2_Witness ==
  /\ Done
  /\ \E k \in WordIdx : \E j \in WordIdx :
       /\ k < j
       /\ calls[k].w = calls[j].w
       /\ calls[k].lo > 0
       /\ calls[k].hi < calls[j].lo

\* C4: on return, inside a maximal run of two or more uppercase characters of
\* a Unicode word no sub-word starts or ends, except that one sub-word ends
\* and the next starts at the last character of the run exactly when the
\* character after the run is lowercase.
C4_AcronymRule ==
  Done =>
    \A wn \in 1..Len(words) :
      \A p \in 1..Len(words[wn]) : \A q \in 1..Len(words[wn]) :
        UpperRun(words[wn], p, q) =>
          /\ \A m \in (p + 1)..(q - 1) : ~StartsAt(wn, m) /\ ~EndsAt(wn, m)
          /\ StartsAt(wn, q)
               <=> (q < Len(words[wn]) /\ IsLowercase(words[wn][q + 1]))
          /\ EndsAt(wn, q) <=> StartsAt(wn, q)

\* C4 witness: a finished run over a run of three uppercase characters followed
\* by a lowercase one, split before the last uppercase character.
C4_Witness ==
  /\ Done
  /\ \E wn \in 1..Len(words) :
       \E p \in 1..Len(words[wn]) : \E q \in 1..Len(words[wn]) :
         /\ UpperRun(words[wn], p, q)
         /\ q >= p + 2
         /\ StartsAt(wn, q)

\* C5: on return, wherever an uppercase character of a Unicode word is
\* followed by a lowercase character, a sub-word starts at the uppercase one.
C5_BoundaryBeforeUpperLower ==
  Done =>
    \A wn \in 1..Len(words) : \A p \in 1..Len(words[wn]) :
      (/\ p < Len(words[wn])
       /\ IsUppercase(words[wn][p])
       /\ IsLowercase(words[wn][p + 1])) => StartsAt(wn, p)

\* C8: a failed callback invocation is the last invocation made and transform
\* has returned Err; transform returns Err only from a failed invocation; and
\* it never panics.
C8_FailurePropagates ==
  /\ \A k \in 1..Len(calls) : ~calls[k].ok => k = Len(calls) /\ result = "err"
  /\ result = "err" => Len(calls) > 0 /\ ~calls[Len(calls)].ok
  /\ result = "ok" => NoFailure
  /\ result # "panic"

\* C8 witness: boundary failed, and transform returned Err without invoking
\* with_word for the sub-word the boundary precedes.
C8_Witness ==
  /\ result = "err"
  /\ Len(calls) > 1
  /\ calls[Len(calls)].kind = "boundary"
  /\ ~calls[Len(calls)].ok

\* C10: at the start of a scan step that examines a non-underscore character,
\* mode is Boundary exactly when the sub-word accumulated so far holds no cased
\* character, Lowercase exactly when its last cased character is lowercase,
\* Uppercase exactly when it is uppercase; at the start of a word it is Boundary.
C10_ModeTracksCase ==
  /\ (Scanning /\ word[pos] # "_") =>
       LET lc == LastCased(Slice(word, init, ByteOff(word, pos)))
       IN  /\ mode = "Boundary" <=> lc = "none"
           /\ mode = "Lowercase" <=> (lc # "none" /\ IsLowercase(lc))
           /\ mode = "Uppercase" <=> (lc # "none" /\ IsUppercase(lc))
  /\ (Scanning /\ pos = 1) => mode = "Boundary"

\* The k-th sub-word as the renderer of the run writes it.
Rendered(k) ==
  LET w == SliceOf(CHOOSE j \in WordIdx : Cardinality({n \in WordIdx : n <= j}) = k)
  IN  IF style = "mixed" /\ k = 1 THEN lowercase(w) ELSE capitalize(w)

HasLowercase(x) == \E j \in 1..Len(x) : IsLowercase(x[j])

\* The converter of the run applied to str.
Convert(str) == IF style = "camel" THEN to_camel_case(str) ELSE to_mixed_case(str)

RECURSIVE CollapseUnderscores(_)
CollapseUnderscores(str) ==
  IF Len(str) < 2 THEN str
  ELSE IF str[1] = "_" /\ str[2] = "_" THEN CollapseUnderscores(Tail(str))
  ELSE <<Head(str)>> \o CollapseUnderscores(Tail(str))

OtherDelimiter(c) == IF c = "_" THEN " " ELSE "_"

\* The strings that differ from s in their delimiters only: runs of
\* underscores collapsed, one underscore and space exchanged, a delimiter added
\* to or removed from either end.
DelimiterVariants ==
  {CollapseUnderscores(s)}
  \cup {[s EXCEPT ![p] = OtherDelimiter(s[p])] : p \in {q \in 1..Len(s) : IsDelimiter(s[q])}}
  \cup {<<d>> \o s : d \in {"_", " "}}
  \cup {Append(s, d) : d \in {"_", " "}}
  \cup (IF s # << >> /\ IsDelimiter(s[1]) THEN {Tail(s)} ELSE {})
  \cup (IF s # << >> /\ IsDelimiter(s[Len(s)]) THEN {SubSeq(s, 1, Len(s) - 1)} ELSE {})

\* C6: the sub-words emitted for s, and so the Camel and Mixed outputs, are
\* those of every string that differs from s in its delimiters only; none of
\* them is empty.
C6_DelimitersCollapse ==
  Done =>
    LET e == Emitted
    IN  /\ \A v \in DelimiterVariants :
             /\ SubWords(v) = e
             /\ style \in {"camel", "mixed"} => Convert(v) = out
        /\ \A k \in 1..Len(e) : e[k] # << >>

\* C6 witness: a finished run over an input with two sub-words separated by a
\* doubled underscore.
C6_Witness ==
  /\ Done
  /\ Len(Emitted) >= 2
  /\ CollapseUnderscores(s) # s

\* C7: the output written so far is the first sub-word lowercased (Mixed) or
\* capitalized (Camel) followed by every later sub-word capitalized; the Mixed
\* closure's `first` flag is set exactly while transform's first_word is; and
\* on return the Mixed output equals the Camel output of the same input after
\* the first rendered sub-word.
C7_MixedFirstLower ==
  /\ style \in {"camel", "mixed"} =>
       out = Concat([k \in 1..Cardinality(WordIdx) |-> Rendered(k)])
  /\ style = "mixed" => first = first_word
  /\ (Done /\ style = "mixed" /\ Emitted # << >>) =>
       /\ SubSeq(out, 1, Len(Emitted[1])) = lowercase(Emitted[1])
       /\ SubSeq(out, Len(Emitted[1]) + 1, Len(out))
            = SubSeq(to_camel_case(s), Len(Emitted[1]) + 1, Len(to_camel_case(s)))

\* C7 witness: a finished Mixed conversion of sub-words from two Unicode words
\* whose output differs from the Camel output.
C7_Witness ==
  /\ Done
  /\ style = "mixed"
  /\ \E k \in WordIdx : calls[k].w = 2
  /\ out # to_camel_case(s)
  /\ out # lowercase(Concat(Emitted))

\* Characters and words still to be scanned, plus one while transform runs.
RECURSIVE CharsFrom(_)
CharsFrom(n) == IF n > Len(words) THEN 0 ELSE Len(words[n]) + 1 + CharsFrom(n + 1)

Measure ==
  (IF result = "running" THEN 1 ELSE 0)
  + CharsFrom(wi + 1)
  + (IF wi >= 1 THEN Len(word) + 1 - pos ELSE 0)

\* C9, state part: no panic, no stop short of the end, offsets and slices in range.
C9_InRange ==
  /\ result # "panic"
  /\ NoFailure => result \in {"running", "ok"}
  /\ wi <= Len(words)
  /\ wi >= 1 => pos <= Len(word) + 1
  /\ result = "running" => Scanning \/ WordDone
  /\ Scanning => init <= ByteOff(word, pos)
  /\ \A k \in WordIdx :
       /\ calls[k].rule \in {"after", "before"} => calls[k].lo < calls[k].hi
       /\ calls[k].rule = "trailing" => calls[k].lo < ByteLen(words[calls[k].w])
       /\ calls[k].hi <= ByteLen(words[calls[k].w])
  /\ Done => wi = Len(words) /\ WordDone
  /\ (Done /\ s = << >>) => calls = << >> /\ out = << >>

\* C9, step part: the measure falls, and characters and words are taken in turn.
C9_Step ==
  /\ Measure' < Measure
  /\ wi' = wi => pos' = pos \/ (Scanning /\ pos' = pos + 1)
  /\ wi' # wi => WordDone /\ wi' = wi + 1 /\ pos' = 1

\* C9: transform never panics and never stops short of returning: while it
\* runs, a character is left to scan or the loop over the words moves on, and
\* every step lowers a natural-number measure;
\* each step takes exactly the next character of the current word, a new word
\* is taken only when the current one is exhausted, and Ok(()) is returned
\* only after the last word, unless a callback failed.  The start of the
\* accumulated sub-word never passes the current character, and every slice
\* taken is non-empty and in range.  The empty input makes no call.
C9_Totality == []C9_InRange /\ [][C9_Step]_vars

\* C9 witness: a finished run that took a slice by each of the three rules.
C9_Witness ==
  /\ Done
  /\ \E k \in WordIdx : calls[k].rule = "before"
  /\ \E k \in WordIdx : calls[k].rule = "after"
  /\ \E k \in WordIdx : calls[k].rule = "trailing"

====
